---- MODULE Spec2Model ----
(***************************************************************************)
(* butternut: a grading CLI.  main loads a project spec, then for every    *)
(* task builds a GradingOption (submission root) and grades it: check the  *)
(* mandatory files, run gcc (once, or twice when optional files exist),    *)
(* then run ./a.out --verbose.                                             *)
(*                                                                         *)
(* A path (std::path::PathBuf) is a sequence of components.  The file      *)
(* system, the command line, the spec file and the exit statuses of the    *)
(* child processes are the inputs of a run.                                *)
(***************************************************************************)
EXTENDS Integers, Sequences, FiniteSets, TLC

\* ------------------------------------------------------------------ bounds
MaxTasks == 2
MaxLen == 2

\* ------------------------------------------------------------------ values
None == [some |-> FALSE, val |-> <<>>]
Some(v) == [some |-> TRUE, val |-> v]

Ok == [ok |-> TRUE, err |-> ""]
Err(msg) == [ok |-> FALSE, err |-> msg]

\* PathBuf::push: an absolute item replaces the path, a relative one is appended.
Push(path, item) == IF item # <<>> /\ item[1] = "/" THEN item ELSE path \o item

\* ------------------------------------------------------------------ inputs
Logins == {"michel", "alice"}
CodeName == "proj"
SpecDeliveryFolder == <<"deliveries">>
CliDeliveryFolder == <<"handins">>
SpecGraderFolder == <<"graders">>
CliGraderFolder == <<"tests">>
\* An argument (OsString) is written like a one-component path.
CompileArgsBase == <<<<"-Wall">>>>
CompileArgsTail == <<<<"-lcriterion">>>>

\* What a populated submission directory and a grader folder hold.
SubmittedNames == {<<"a.c">>, <<"b.c">>, <<"o.c">>, <<"p.c">>}
GraderNames == {<<"t.c">>}
\* What a task may declare: present names and one absent name per list.
MandatoryPool == {<<"a.c">>, <<"b.c">>, <<"nope.c">>}
OptionalPool == {<<"o.c">>, <<"p.c">>, <<"gone.c">>}
TestPool == {<<"t.c">>, <<"lost.c">>}

SeqsNoDup(S, n) ==
  {s \in UNION {[1..k -> S] : k \in 0..n} :
     \A x, y \in DOMAIN s : x # y => s[x] # s[y]}

\* One task with lists of up to MaxLen files.
RichTasks ==
  {[name |-> "task", mandatory_files |-> m, optional_files |-> o, test_files |-> t] :
     m \in SeqsNoDup(MandatoryPool, MaxLen),
     o \in SeqsNoDup(OptionalPool, MaxLen),
     t \in SeqsNoDup(TestPool, MaxLen)}

\* Tasks of a several-task project: one mandatory file, at most one optional.
PlainTasks ==
  {[name |-> "task", mandatory_files |-> <<m>>, optional_files |-> o,
    test_files |-> <<<<"t.c">>>>] :
     m \in {<<"a.c">>, <<"nope.c">>}, o \in {<<>>, <<<<"o.c">>>>}}

TaskLists ==
  {<<>>} \cup {<<t>> : t \in RichTasks}
         \cup UNION {[1..n -> PlainTasks] : n \in 2..MaxTasks}

SubmissionRoots ==
  {<<d[1], l, CodeName>> : d \in {SpecDeliveryFolder, CliDeliveryFolder}, l \in Logins}
GraderFiles ==
  {g \o n : g \in {SpecGraderFolder, CliGraderFolder}, n \in GraderNames}

\* The file systems of a run: every student's submission root is a populated
\* directory, or a regular file, or does not exist.
FileSystem(kind) ==
  CASE kind = "dir" ->
         [files |-> {r \o n : r \in SubmissionRoots, n \in SubmittedNames} \cup GraderFiles,
          dirs |-> SubmissionRoots]
    [] kind = "file" -> [files |-> SubmissionRoots \cup GraderFiles, dirs |-> {}]
    [] OTHER -> [files |-> GraderFiles, dirs |-> {}]

\* ./a.out in the working directory: absent, or the image some gcc run wrote.
NoFile == [exists |-> FALSE, task |-> 0, attempt |-> 0]
Leftover == [exists |-> TRUE, task |-> 0, attempt |-> 0]
Image(task, attempt) == [exists |-> TRUE, task |-> task, attempt |-> attempt]

Outcomes == {"spawn_error", "wait_error", "exit_nonzero", "exit_zero"}

VARIABLES
  pc,               \* where main is
  fs,               \* the file system: regular files and directories
  a_out,            \* ./a.out of the working directory
  opt,              \* Opt, the parsed command line
  file_spec,        \* the ProjectSpec the spec file holds
  spec,             \* main's `spec`
  task_idx,         \* position of the for loop in spec.tasks
  repo,             \* GradingOption.repo
  mandatory_files,  \* grade's local
  optional,         \* grade's local
  test_files,       \* grade's local
  calls,            \* child processes spawned for the current task
  grade_result,     \* what grade returned
  built,            \* tasks GradingOption::new was called for, in order
  graded,           \* tasks grade returned for, in order, with the result
  exit_status       \* "running", "ok" (main returned Ok) or "err"

vars == <<pc, fs, a_out, opt, file_spec, spec, task_idx, repo, mandatory_files,
          optional, test_files, calls, grade_result, built, graded, exit_status>>

NoSpec == [meta |-> [code_name |-> "", delivery_folder |-> <<>>, grader_folder |-> <<>>,
                     compile_args_base |-> <<>>, compile_args_tail |-> <<>>],
           tasks |-> <<>>]

Init ==
  /\ pc = "main"
  /\ \E kind \in {"dir", "file", "missing"} : fs = FileSystem(kind)
  /\ a_out \in {NoFile, Leftover}
  /\ \E d \in {None, Some(CliDeliveryFolder)}, g \in {None, Some(CliGraderFolder)},
        l \in Logins :
       opt = [delivery_folder |-> d, grader_folder |-> g, login |-> l]
  /\ \E ts \in TaskLists :
       file_spec = [meta |-> [code_name |-> CodeName,
                              delivery_folder |-> SpecDeliveryFolder,
                              grader_folder |-> SpecGraderFolder,
                              compile_args_base |-> CompileArgsBase,
                              compile_args_tail |-> CompileArgsTail],
                    tasks |-> ts]
  /\ spec = NoSpec
  /\ task_idx = 0
  /\ repo = <<>>
  /\ mandatory_files = <<>>
  /\ optional = <<>>
  /\ test_files = <<>>
  /\ calls = <<>>
  /\ grade_result = Ok
  /\ built = <<>>
  /\ graded = <<>>
  /\ exit_status = "running"

\* ------------------------------------------------------------------ helpers
IsFile(p) == p \in fs.files
Exists(p) == p \in fs.files \cup fs.dirs

MkFileListNoPrune(file_names, root, prune_missing) ==
  [k \in DOMAIN file_names |-> Push(root, file_names[k])]

\* GradingOption::mk_file_list
MkFileList(file_names, root, prune_missing) ==
  LET absolute == [k \in DOMAIN file_names |-> Push(root, file_names[k])]
      keep(p) == ~prune_missing \/ IsFile(p)
  IN SelectSeq(absolute, keep)

MissingMandatoryFirstOnly(files) ==
  IF files # <<>> /\ ~IsFile(files[1]) THEN <<files[1]>> ELSE <<>>

\* The paths among `files` that are no regular file (grade's missing_mandatory).
MissingMandatory(files) ==
  LET missing(p) == ~IsFile(p)
  IN SelectSeq(files, missing)

\* Path::canonicalize, whose value GradingOption::new drops: the path must exist.
Canonicalize(p) == IF Exists(p) THEN Ok ELSE Err("no delivery")

\* GradingOption::new: Ok with the repo, or the canonicalize error.
New(project, login) ==
  LET root == Push(Push(project.delivery_folder, <<login>>), <<project.code_name>>)
  IN [res |-> Canonicalize(root), repo |-> root]

\* The argv of the gcc child.
CompileArgs(files) ==
  spec.meta.compile_args_base \o files \o spec.meta.compile_args_tail

\* compile's result, from what happened to the child.
CompileResult(outcome) ==
  CASE outcome = "spawn_error" -> Err("while spawning child")
    [] outcome = "wait_error" -> Err("while awaiting child")
    [] outcome = "exit_nonzero" -> Err("child process exited with non zero status")
    [] OTHER -> Ok

RunTestsResultUnwaited(outcome) ==
  IF outcome = "spawn_error" THEN Err("while spawning child") ELSE Ok

\* run_tests' result, from what happened to the child.
RunTestsResult(outcome) ==
  CASE outcome = "spawn_error" -> Err("while spawning child")
    [] outcome = "wait_error" -> Err("while awaiting child")
    [] outcome = "exit_nonzero" -> Err("child process exited with non zero status")
    [] OTHER -> Ok

\* ./a.out after a gcc child: a run that exits zero writes it; one that fails
\* leaves the old file or removes it; a child that never ran changes nothing.
AOutAfter(outcome, attempt) ==
  CASE outcome = "exit_zero" -> {Image(task_idx, attempt)}
    [] outcome = "exit_nonzero" -> {a_out, NoFile}
    [] OTHER -> {a_out}

WithoutOptional(mandatory, tests) == mandatory \o tests
WithOptional(mandatory, opts, tests) == mandatory \o opts \o tests

AfterFirstCompileAlwaysRetry(result, opts) ==
  IF result.ok THEN "run_tests" ELSE "retry"

AfterFirstCompileNoReturn(result, opts) ==
  IF result.ok \/ opts = <<>> THEN "run_tests" ELSE "retry"

\* Where grade goes after the first compile.
AfterFirstCompile(result, opts) ==
  IF result.ok THEN "run_tests"
  ELSE IF opts = <<>> THEN "graded" ELSE "retry"

\* Where grade goes after the second compile (the ? of line 121).
AfterRetry(result) == IF result.ok THEN "run_tests" ELSE "graded"

OnBuildErrorSkipTask ==
  /\ pc' = "loop"
  /\ task_idx' = task_idx + 1
  /\ UNCHANGED exit_status

\* main's ? on GradingOption::new: the error leaves main.
OnBuildError ==
  /\ pc' = "exited"
  /\ exit_status' = "err"
  /\ UNCHANGED task_idx

OnGradedPropagate(result) ==
  IF result.ok
    THEN pc' = "loop" /\ task_idx' = task_idx + 1 /\ UNCHANGED exit_status
    ELSE pc' = "exited" /\ exit_status' = "err" /\ UNCHANGED task_idx

\* main after grade returned: an Err is dropped, the loop goes on.
OnGraded(result) ==
  /\ pc' = "loop"
  /\ task_idx' = task_idx + 1
  /\ UNCHANGED exit_status

CurTask == spec.tasks[task_idx]

\* ------------------------------------------------------------------ actions
\* main: the spec file cannot be opened, read or parsed.
MainLoadError ==
  /\ pc = "main"
  /\ pc' = "exited"
  /\ exit_status' = "err"
  /\ UNCHANGED <<fs, a_out, opt, file_spec, spec, task_idx, repo, mandatory_files,
                 optional, test_files, calls, grade_result, built, graded>>

\* main: parse the command line, load the spec, apply the overrides.
MainLoad ==
  /\ pc = "main"
  /\ spec' = [file_spec EXCEPT
                !.meta.delivery_folder =
                   IF opt.delivery_folder.some THEN opt.delivery_folder.val ELSE @,
                !.meta.grader_folder =
                   IF opt.grader_folder.some THEN opt.grader_folder.val ELSE @]
  /\ task_idx' = 1
  /\ pc' = "loop"
  /\ UNCHANGED <<fs, a_out, opt, file_spec, repo, mandatory_files, optional,
                 test_files, calls, grade_result, built, graded, exit_status>>

\* main: the next task's GradingOption::new(task, &spec.meta, "michel").
MainNew ==
  /\ pc = "loop"
  /\ task_idx <= Len(spec.tasks)
  /\ LET g == New(spec.meta, "michel")
     IN /\ built' = Append(built, task_idx)
        /\ repo' = g.repo
        /\ calls' = <<>>
        /\ mandatory_files' = <<>>
        /\ optional' = <<>>
        /\ test_files' = <<>>
        /\ IF g.res.ok
             THEN pc' = "grade" /\ UNCHANGED <<task_idx, exit_status>>
             ELSE OnBuildError
  /\ UNCHANGED <<fs, a_out, opt, file_spec, spec, grade_result, graded>>

\* main: the loop is over, Ok(()).
MainReturn ==
  /\ pc = "loop"
  /\ task_idx > Len(spec.tasks)
  /\ pc' = "exited"
  /\ exit_status' = "ok"
  /\ UNCHANGED <<fs, a_out, opt, file_spec, spec, task_idx, repo, mandatory_files,
                 optional, test_files, calls, grade_result, built, graded>>

\* grade, up to the first compile: the mandatory check and the file lists.
GradeLists ==
  /\ pc = "grade"
  /\ LET mandatory == MkFileList(CurTask.mandatory_files, repo, FALSE)
     IN /\ mandatory_files' = mandatory
        /\ IF MissingMandatory(mandatory) # <<>>
             THEN /\ grade_result' = Err("missing mandatory files")
                  /\ pc' = "graded"
                  /\ UNCHANGED <<optional, test_files>>
             ELSE /\ optional' = MkFileList(CurTask.optional_files, repo, TRUE)
                  /\ test_files' = MkFileList(CurTask.test_files, spec.meta.grader_folder, FALSE)
                  /\ pc' = "compile"
                  /\ UNCHANGED grade_result
  /\ UNCHANGED <<fs, a_out, opt, file_spec, spec, task_idx, repo, calls, built,
                 graded, exit_status>>

\* grade: self.compile(&without_optional), the child's fate being an input.
CompileFirst ==
  /\ pc = "compile"
  /\ \E outcome \in Outcomes :
       \E image \in AOutAfter(outcome, 1) :
         LET r == CompileResult(outcome)
         IN /\ calls' = Append(calls,
                  [task |-> task_idx, prog |-> "gcc",
                   args |-> CompileArgs(WithoutOptional(mandatory_files, test_files)),
                   outcome |-> outcome, image |-> image])
            /\ a_out' = image
            /\ pc' = AfterFirstCompile(r, optional)
            /\ grade_result' = IF r.ok THEN grade_result ELSE r
  /\ UNCHANGED <<fs, opt, file_spec, spec, task_idx, repo, mandatory_files, optional,
                 test_files, built, graded, exit_status>>

\* grade: self.compile(&with_optional)?
CompileRetry ==
  /\ pc = "retry"
  /\ \E outcome \in Outcomes :
       \E image \in AOutAfter(outcome, 2) :
         LET r == CompileResult(outcome)
         IN /\ calls' = Append(calls,
                  [task |-> task_idx, prog |-> "gcc",
                   args |-> CompileArgs(WithOptional(mandatory_files, optional, test_files)),
                   outcome |-> outcome, image |-> image])
            /\ a_out' = image
            /\ pc' = AfterRetry(r)
            /\ grade_result' = IF r.ok THEN grade_result ELSE r
  /\ UNCHANGED <<fs, opt, file_spec, spec, task_idx, repo, mandatory_files, optional,
                 test_files, built, graded, exit_status>>

\* grade: self.run_tests()?; Ok(()).  Without ./a.out the spawn fails.
RunTests ==
  /\ pc = "run_tests"
  /\ \E outcome \in Outcomes :
       /\ ~a_out.exists => outcome = "spawn_error"
       /\ calls' = Append(calls,
             [task |-> task_idx, prog |-> "./a.out", args |-> <<<<"--verbose">>>>,
              outcome |-> outcome, image |-> a_out])
       /\ grade_result' = RunTestsResult(outcome)
  /\ pc' = "graded"
  /\ UNCHANGED <<fs, a_out, opt, file_spec, spec, task_idx, repo, mandatory_files,
                 optional, test_files, built, graded, exit_status>>

\* main: grade returned; print the separator and loop.
MainTaskDone ==
  /\ pc = "graded"
  /\ graded' = Append(graded, [task |-> task_idx, ok |-> grade_result.ok])
  /\ OnGraded(grade_result)
  /\ grade_result' = Ok
  /\ UNCHANGED <<fs, a_out, opt, file_spec, spec, repo, mandatory_files, optional,
                 test_files, calls, built>>

Next ==
  \/ MainLoadError
  \/ MainLoad
  \/ MainNew
  \/ MainReturn
  \/ GradeLists
  \/ CompileFirst
  \/ CompileRetry
  \/ RunTests
  \/ MainTaskDone

Spec == Init /\ [][Next]_vars

\* Every child process terminates and main runs on until it returns.
FairSpec == Spec /\ WF_vars(Next)

\* ------------------------------------------------------------------ properties
\* The statements below read the inputs (file_spec, opt, fs) and what the run
\* did (calls, built, graded), not the operators the actions are made of.

InGrade == pc \in {"grade", "compile", "retry", "run_tests", "graded"}
PastLists == pc \in {"compile", "retry", "run_tests", "graded"}
Declared == file_spec.tasks[task_idx]
EffectiveDelivery ==
  IF opt.delivery_folder.some THEN opt.delivery_folder.val
  ELSE file_spec.meta.delivery_folder
EffectiveGrader ==
  IF opt.grader_folder.some THEN opt.grader_folder.val
  ELSE file_spec.meta.grader_folder

RECURSIVE Under(_, _)
Under(root, names) ==
  IF names = <<>> THEN <<>> ELSE <<root \o Head(names)>> \o Under(root, Tail(names))

RECURSIVE ExistingUnder(_, _)
ExistingUnder(root, names) ==
  IF names = <<>> THEN <<>>
  ELSE (IF (root \o Head(names)) \in fs.files THEN <<root \o Head(names)>> ELSE <<>>)
       \o ExistingUnder(root, Tail(names))

Range(s) == {s[k] : k \in DOMAIN s}
GccCalls == {k \in DOMAIN calls : calls[k].prog = "gcc"}
TestRuns == {k \in DOMAIN calls : calls[k].prog = "./a.out"}
SomeMandatoryMissing ==
  \E k \in DOMAIN Declared.mandatory_files :
    (repo \o Declared.mandatory_files[k]) \notin fs.files
SomeTestMissing ==
  \E k \in DOMAIN Declared.test_files :
    (EffectiveGrader \o Declared.test_files[k]) \notin fs.files
FirstCompileFailed ==
  /\ calls # <<>>
  /\ calls[1].prog = "gcc"
  /\ calls[1].outcome # "exit_zero"
ChildError(outcome) ==
  CASE outcome = "spawn_error" -> "while spawning child"
    [] outcome = "wait_error" -> "while awaiting child"
    [] OTHER -> "child process exited with non zero status"
Upto(n) == [k \in 1..n |-> k]

\* C1: a task with a mandatory file that is no regular file under the
\* submission root makes grade return an error without spawning any child
\* process (neither gcc nor ./a.out).
C1_MissingMandatoryNoChild ==
  (PastLists /\ SomeMandatoryMissing) =>
     (pc = "graded" /\ ~grade_result.ok /\ calls = <<>>)

C1_Witness ==
  /\ pc = "graded"
  /\ Len(mandatory_files) = 2
  /\ mandatory_files[1] \in fs.files
  /\ mandatory_files[2] \notin fs.files
  /\ ~grade_result.ok
  /\ calls = <<>>

\* C2: gcc runs at most twice per task; it runs a second time exactly when the
\* first run failed and some optional file exists; a first failure without
\* existing optional files is grade's error, with no retry; a failed retry is
\* grade's error.
C2_RetryPolicy ==
  InGrade =>
    /\ Cardinality(GccCalls) <= 2
    /\ pc = "retry" => (FirstCompileFailed /\ ExistingUnder(repo, Declared.optional_files) # <<>>)
    /\ pc \in {"run_tests", "graded"} =>
         (Cardinality(GccCalls) = 2 <=>
            (FirstCompileFailed /\ ExistingUnder(repo, Declared.optional_files) # <<>>))
    /\ (pc = "graded" /\ FirstCompileFailed
          /\ ExistingUnder(repo, Declared.optional_files) = <<>>) =>
         (Len(calls) = 1 /\ grade_result = [ok |-> FALSE, err |-> ChildError(calls[1].outcome)])
    /\ (pc \in {"run_tests", "graded"} /\ Cardinality(GccCalls) = 2
          /\ calls[2].outcome # "exit_zero") =>
         (pc = "graded" /\ Len(calls) = 2
            /\ grade_result = [ok |-> FALSE, err |-> ChildError(calls[2].outcome)])

C2_Witness ==
  /\ pc = "graded"
  /\ Cardinality(GccCalls) = 2
  /\ calls[1].outcome = "exit_nonzero"
  /\ calls[2].outcome = "spawn_error"
  /\ ~grade_result.ok

\* C3: the first gcc run gets the mandatory files under the submission root
\* then the test files under the grader folder, in declared order; the retry
\* gets the mandatory files, the optional files that exist, the test files.
\* An absent optional file is in no gcc argv and grade fails only on a missing
\* mandatory file or a failed child.
C3_FileLists ==
  /\ \A k \in GccCalls :
       /\ k = 1 =>
            calls[k].args =
              file_spec.meta.compile_args_base
                \o Under(repo, file_spec.tasks[calls[k].task].mandatory_files)
                \o Under(EffectiveGrader, file_spec.tasks[calls[k].task].test_files)
                \o file_spec.meta.compile_args_tail
       /\ k = 2 =>
            calls[k].args =
              file_spec.meta.compile_args_base
                \o Under(repo, file_spec.tasks[calls[k].task].mandatory_files)
                \o ExistingUnder(repo, file_spec.tasks[calls[k].task].optional_files)
                \o Under(EffectiveGrader, file_spec.tasks[calls[k].task].test_files)
                \o file_spec.meta.compile_args_tail
       /\ k <= 2
       /\ \A j \in DOMAIN file_spec.tasks[calls[k].task].optional_files :
            LET p == repo \o file_spec.tasks[calls[k].task].optional_files[j]
            IN p \notin fs.files => p \notin Range(calls[k].args)
  /\ (pc = "graded" /\ ~grade_result.ok) =>
       (SomeMandatoryMissing \/ (calls # <<>> /\ calls[Len(calls)].outcome # "exit_zero"))

C3_Witness ==
  /\ pc = "run_tests"
  /\ Len(calls) = 2
  /\ Len(Declared.mandatory_files) = 2
  /\ Len(Declared.optional_files) = 2
  /\ Len(ExistingUnder(repo, Declared.optional_files)) = 1
  /\ Len(Declared.test_files) = 1
  /\ opt.grader_folder.some

\* C4: ./a.out runs at most once per task and only right after a gcc run of
\* that task that exited zero; when it ran, grade succeeds exactly when it
\* exited zero; grade never succeeds without it.
C4_TestsAfterCompile ==
  /\ Cardinality(TestRuns) <= 1
  /\ \A k \in TestRuns :
       /\ k > 1
       /\ calls[k - 1].prog = "gcc"
       /\ calls[k - 1].task = calls[k].task
       /\ calls[k - 1].outcome = "exit_zero"
  /\ (\A k \in GccCalls : calls[k].outcome # "exit_zero") => TestRuns = {}
  /\ pc = "graded" =>
       (grade_result.ok <=> \E k \in TestRuns : calls[k].outcome = "exit_zero")

C4_Witness ==
  /\ pc = "graded"
  /\ Len(calls) = 3
  /\ calls[3].prog = "./a.out"
  /\ calls[3].outcome = "wait_error"
  /\ ~grade_result.ok

\* C5: once grade has returned an error for a task, main goes on: it ends
\* with a successful exit status having built and graded every task of the
\* spec once, in declared order.
C5_GradeErrorNotFatal ==
  (pc = "graded" /\ ~grade_result.ok)
    ~> (/\ pc = "exited"
        /\ exit_status = "ok"
        /\ built = Upto(Len(file_spec.tasks))
        /\ [k \in DOMAIN graded |-> graded[k].task] = Upto(Len(file_spec.tasks)))

C5_Witness ==
  /\ pc = "exited"
  /\ exit_status = "ok"
  /\ Len(graded) >= 2
  /\ ~graded[1].ok
  /\ graded[2].ok

\* GradingOption::new failed for the task built last.
BuildFailed == pc \in {"loop", "exited"} /\ Len(built) > Len(graded)

C7_AsClaimed ==
  (pc \in {"run_tests", "graded"} /\ SomeTestMissing) =>
     (pc = "graded" /\ ~grade_result.ok /\ TestRuns = {})

\* C8 as claimed: grade only ever starts on a submission root that is an
\* existing directory.
C8_AsClaimed == InGrade => repo \in fs.dirs

\* C9 as claimed: the submission root is delivery folder (override first),
\* then the login of the command line, then the code name.
C9_AsClaimed ==
  built # <<>> =>
    repo = EffectiveDelivery \o <<opt.login>> \o <<file_spec.meta.code_name>>

\* C10: the ./a.out image a test run executes was written by the gcc run just
\* before it, a run of the same task that exited zero; never a leftover of an
\* earlier task, attempt or run.
C10_FreshBinary ==
  \A k \in TestRuns :
    calls[k].outcome # "spawn_error" =>
      /\ k > 1
      /\ calls[k].image = [exists |-> TRUE, task |-> calls[k].task, attempt |-> k - 1]
      /\ calls[k - 1].prog = "gcc"
      /\ calls[k - 1].outcome = "exit_zero"
      /\ calls[k - 1].image = calls[k].image

C10_Witness ==
  /\ pc = "graded"
  /\ task_idx = 2
  /\ graded[1].ok
  /\ Len(calls) = 3
  /\ calls[3].prog = "./a.out"
  /\ calls[3].outcome = "exit_zero"

====
